---- MODULE Spec2Model ----
(***************************************************************************)
(* Fragment Username Checker: the two FastAPI applications api/app.py      *)
(* (version 1.0.0) and api/index.py (version 2.0.0).                       *)
(*                                                                         *)
(* One request is served at a time.  A request runs the endpoint handler   *)
(* up to its first blocking network call, then one step per upstream       *)
(* request (homepage GET, lookup POST), and the step that ends the check   *)
(* also builds the HTTP response.  Text is a sequence of one-character     *)
(* strings, so that strip/lower/replace and the regular expressions are    *)
(* computed character by character.                                        *)
(***************************************************************************)
EXTENDS Integers, Sequences, FiniteSets, TLC

VARIABLES
    variant,      \* "app" (api/app.py) or "index" (api/index.py): the deployed application
    jsonErrIsReq, \* TRUE when response.json() raises a requests.exceptions.RequestException
                  \* subclass (requests >= 2.27), FALSE when it raises a plain ValueError
    pc,           \* "idle" | "resolve" | "lookup" | "next" | "done"
    entry,        \* "GET" | "POST" | "BATCH": the endpoint serving the current request
    raw,          \* the username parameter as received
    username,     \* the cleaned username handed to the check
    retries,      \* the retries argument of the running check
    attempt,      \* index.py: the loop variable of `for attempt in range(retries + 1)`
    apiHash,      \* the hash of the api_url in use, NoHash when none
    fetches,      \* homepage GETs issued by the current check
    posts,        \* lookup POSTs issued by the current check
    lastPost,     \* the response to the latest lookup POST
    postLog,      \* summary of the lookup responses of the current check
    result,       \* the dict returned by the check
    httpCode,     \* status code of the HTTP response, 0 while none
    listing,      \* upstream fact: the text class of fragment.com/username/<name>
    tgProfile,    \* upstream fact: t.me/<name> answers 200 with a profile title
    sessionUA,    \* the User-Agent header of the module-level requests.Session
    hashUses,     \* lookup POSTs sent with the hash of the latest resolution
    queue,        \* GET /batch: the cleaned usernames still to be checked
    results       \* GET /batch: the dicts collected so far

vars == <<variant, jsonErrIsReq, pc, entry, raw, username, retries, attempt, apiHash,
          fetches, posts, lastPost, postLog, result, httpCode, listing, tgProfile,
          sessionUA, hashUses, queue, results>>

----------------------------------------------------------------------------
(* Bounds *)

MaxLen == 1        \* raw usernames of every length up to MaxLen over Alphabet
MaxElems == 3      \* tm-value elements in a lookup fragment
MaxBatch == 2      \* entries of a usernames list, besides the one long list
MaxNormLen == 3    \* inputs of the normalization taken alone
MaxRetries == 3    \* largest retries argument of a direct call of the check

(* Program constants *)

AppRetries == 3        \* app.py: def check_fgusername(username, retries=3)
IndexRetries == 2      \* index.py: def check_username_on_fragment(username, retries=2)
MaxUsernameLen == 32   \* len(username) > 32, {1,32}, max_length=32
MinElems == 3          \* len(elements) < 3
MaxBatchNames == 5     \* index.py: if len(username_list) > 5

----------------------------------------------------------------------------
(* Text *)

Alphabet == {"a", "A", "_", "@", " ", "\n", "-"}

Whitespace == {" ", "\n", "\t"}

UpperToLower == [c \in {"A", "F", "O", "U", "N", "V", "I", "L", "B", "E", "S", "T", "P"} |->
    CASE c = "A" -> "a" [] c = "F" -> "f" [] c = "O" -> "o" [] c = "U" -> "u"
      [] c = "N" -> "n" [] c = "V" -> "v" [] c = "I" -> "i" [] c = "L" -> "l"
      [] c = "B" -> "b" [] c = "E" -> "e" [] c = "S" -> "s" [] c = "T" -> "t"
      [] c = "P" -> "p"]

LowerLetters == {"a", "b", "c", "d", "e", "f", "h", "i", "k", "l", "n", "o", "p", "r",
                 "s", "t", "u", "v", "y"}

Digits == {"0", "1", "2", "3", "4", "5", "6", "7", "8", "9"}

\* the character class [a-zA-Z0-9_]
WordChars == LowerLetters \cup DOMAIN UpperToLower \cup Digits \cup {"_"}

LowerChar(c) == IF c \in DOMAIN UpperToLower THEN UpperToLower[c] ELSE c

\* str.lower()
Lower(s) == [i \in 1..Len(s) |-> LowerChar(s[i])]

RECURSIVE LStrip(_)
LStrip(s) == IF s # <<>> /\ Head(s) \in Whitespace THEN LStrip(Tail(s)) ELSE s

RECURSIVE RStrip(_)
RStrip(s) ==
    IF s # <<>> /\ s[Len(s)] \in Whitespace THEN RStrip(SubSeq(s, 1, Len(s) - 1)) ELSE s

\* str.strip()
Strip(s) == RStrip(LStrip(s))

\* str.replace('@', '')
RECURSIVE RemoveAt(_)
RemoveAt(s) ==
    IF s = <<>> THEN <<>>
    ELSE IF Head(s) = "@" THEN RemoveAt(Tail(s))
    ELSE <<Head(s)>> \o RemoveAt(Tail(s))

\* username.strip().lower().replace('@', '')
Clean(s) == RemoveAt(Lower(Strip(s)))

\* needle in hay
Contains(hay, needle) ==
    \E i \in 0..(Len(hay) - Len(needle)) : SubSeq(hay, i + 1, i + Len(needle)) = needle

AllWord(s) == \A i \in 1..Len(s) : s[i] \in WordChars

\* Python's $ matches at the end of the string and also just before a newline that
\* ends the string: the part the pattern has to cover
BeforeDollar(s) ==
    IF s # <<>> /\ s[Len(s)] = "\n" THEN {s, SubSeq(s, 1, Len(s) - 1)} ELSE {s}

\* re.match(r'^[a-zA-Z0-9_]+$', s)
MatchWordPlus(s) == \E t \in BeforeDollar(s) : Len(t) >= 1 /\ AllWord(t)

\* re.match(r'^[a-zA-Z0-9_]{1,32}$', s)
MatchWord1to32(s) ==
    \E t \in BeforeDollar(s) : Len(t) >= 1 /\ Len(t) <= MaxUsernameLen /\ AllWord(t)

RECURSIVE Rep(_, _)
Rep(c, n) == IF n = 0 THEN <<>> ELSE <<c>> \o Rep(c, n - 1)

RECURSIVE SeqsUpTo(_, _)
SeqsUpTo(S, n) ==
    IF n = 0 THEN {<<>>}
    ELSE LET shorter == SeqsUpTo(S, n - 1)
         IN  shorter \cup {<<c>> \o t : c \in S, t \in {u \in shorter : Len(u) = n - 1}}

\* the raw usernames a client sends
RawInputs ==
    SeqsUpTo(Alphabet, MaxLen)
    \cup { <<"@", "F", "o", "o">>, <<"f", "o", "o">>, <<" ", "F", "O", "O", " ">>,
           <<"f", "o", "o", " ", "b", "a", "r">>, <<"f", "@", "o">>,
           <<"f", "o", "o", "\n", "@">>,
           Rep("a", MaxUsernameLen), Rep("a", MaxUsernameLen + 1),
           <<"@">> \o Rep("a", MaxUsernameLen) }

----------------------------------------------------------------------------
(* Upstream responses *)

NoHash == "none"

\* values of the rotating hash on the marketplace homepage
Hashes == {"h1", "h2"}

\* What GET https://fragment.com can answer.  hashEq: the page holds hash=<hex>, with
\* fewer than 64 hex digits ("short") or at least 64 ("long"); apiUrl: "apiUrl" stands
\* in the same inline script as hash= ("script") or also on the same line ("line");
\* jsonHash: the page holds "hash":"<64 hex>".
HomeResponses ==
    [kind : {"timeout", "connerr"}, ok2xx : {FALSE}, hashEq : {"none"},
     apiUrl : {"none"}, jsonHash : {FALSE}, token : {"h1"}]
    \cup
    [kind : {"page"}, ok2xx : BOOLEAN, hashEq : {"none", "short", "long"},
     apiUrl : {"none", "script", "line"}, jsonHash : BOOLEAN, token : Hashes]

T_Unavailable == <<"U", "n", "a", "v", "a", "i", "l", "a", "b", "l", "e">>
T_NowUnavailable == <<"u", "n", "a", "v", "a", "i", "l", "a", "b", "l", "e", " ", "n", "o", "w">>
T_Available == <<"A", "v", "a", "i", "l", "a", "b", "l", "e">>
T_Sold == <<"S", "o", "l", "d">>
T_Tag == <<"@", "f", "o", "o">>
T_Price == <<"1", "0", " ", "T", "O", "N">>
T_Empty == <<>>
T_unavailable == <<"u", "n", "a", "v", "a", "i", "l", "a", "b", "l", "e">>
T_NA == <<"N", "/", "A">>
T_NotListed == <<"N", "o", "t", " ", "L", "i", "s", "t", "e", "d">>
T_NotFound == <<"N", "o", "t", " ", "F", "o", "u", "n", "d">>

\* get_text(strip=True) of the i-th div.tm-value of a fragment
ElemTexts(i) ==
    CASE i = 1 -> {T_Tag}
      [] i = 2 -> {T_Price, T_Empty}
      [] i = 3 -> {T_Unavailable, T_NowUnavailable, T_Available, T_Sold}
      [] OTHER -> {T_Empty}

RECURSIVE FragsOfLen(_)
FragsOfLen(n) ==
    IF n = 0 THEN {<<>>}
    ELSE {Append(f, t) : f \in FragsOfLen(n - 1), t \in ElemTexts(n)}

\* the tm-value texts of the HTML fragments the lookup can answer with
Fragments == UNION {FragsOfLen(n) : n \in 0..MaxElems}

\* What POST <api_url> can answer: an exception of requests, a non-2xx status, a body
\* that is not JSON, JSON null, a JSON list, or a JSON object whose "html" is missing,
\* empty, or a fragment.
PostResponses ==
    [kind : {"timeout", "connerr", "http_error", "badjson", "json_null", "json_list"},
     html : {"absent"}, elems : {<<>>}]
    \cup [kind : {"dict"}, html : {"absent", "empty"}, elems : {<<>>}]
    \cup [kind : {"dict"}, html : {"frag"}, elems : Fragments]

NoPost == [kind |-> "none", html |-> "absent", elems |-> <<>>]

\* timeout, connection failure, non-2xx
Transport(p) == p.kind \in {"timeout", "connerr", "http_error"}

\* classes of lookup answers, for the log of a check
PostClass(p) ==
    CASE Transport(p) -> "transport"
      [] p.kind = "badjson" -> "badjson"
      [] p.kind \in {"json_null", "json_list"} -> "notdict"
      [] p.kind = "dict" /\ p.html # "frag" -> "nohtml"
      [] p.kind = "dict" /\ p.html = "frag" /\ Len(p.elems) < MinElems -> "short"
      [] OTHER -> "record"

----------------------------------------------------------------------------
(* Hash resolution *)

\* app.py frag_api: any exception gives None; the status code is not looked at; the
\* first inline script holding "apiUrl" is searched for hash=<hex>
frag_api(h) ==
    IF h.kind # "page" THEN NoHash
    ELSE IF h.apiUrl # "none" /\ h.hashEq # "none" THEN h.token
    ELSE NoHash

\* index.py get_api_hash: raise_for_status, then pattern 1 (hash= and 64 hex digits),
\* pattern 2 ("hash":"<64 hex>"), pattern 3 (a line holding apiUrl and hash=<hex>)
get_api_hash(h) ==
    IF h.kind # "page" \/ ~h.ok2xx THEN NoHash
    ELSE IF h.hashEq = "long" THEN h.token
    ELSE IF h.jsonHash THEN h.token
    ELSE IF h.apiUrl = "line" /\ h.hashEq # "none" THEN h.token
    ELSE NoHash

----------------------------------------------------------------------------
(* The dicts the checks return *)

NoResult ==
    [error |-> FALSE, raised |-> FALSE, keys |-> {}, message |-> "", username |-> <<>>,
     status |-> <<>>, available |-> "absent", price |-> <<>>]

\* app.py: {"error": <text>}
AppError(msg) ==
    [NoResult EXCEPT !.error = TRUE, !.keys = {"error"}, !.message = msg]

\* app.py: an exception leaves check_fgusername
AppRaised(exc) ==
    [NoResult EXCEPT !.error = TRUE, !.raised = TRUE, !.message = exc]

\* index.py: {"error": True, "message": ..., "username": "@name", "available": None}
IndexError(msg, name) ==
    [NoResult EXCEPT !.error = TRUE, !.keys = {"error", "message", "username", "available"},
                     !.message = msg, !.username = <<"@">> \o name, !.available = "None"]

Bool(b) == IF b THEN "True" ELSE "False"

MsgMightBeFree == "This username might be free or not listed on Fragment"

\* app.py lines 91-99: fewer than 3 elements
AppNotFound(name) ==
    [NoResult EXCEPT !.keys = {"username", "status", "available", "message",
                               "developer", "channel"},
                     !.username = name, !.status = T_NotFound, !.available = "True",
                     !.message = MsgMightBeFree]

\* app.py line 105: available = status.lower() == "unavailable"
AppAvailable(status) == Lower(status) = T_unavailable

\* app.py lines 101-116
AppRecord(elems) ==
    [NoResult EXCEPT !.keys = {"username", "price", "status", "available", "message",
                               "developer", "channel"},
                     !.username = elems[1], !.price = elems[2], !.status = elems[3],
                     !.available = Bool(AppAvailable(elems[3])),
                     !.message = IF AppAvailable(elems[3]) THEN MsgMightBeFree ELSE ""]

IndexKeys == {"error", "username", "status", "available", "price", "message"}

\* index.py lines 186-195: no "html" key, or a falsy one
IndexNotListed(name) ==
    [NoResult EXCEPT !.keys = IndexKeys, !.username = <<"@">> \o name,
                     !.status = T_NotListed, !.available = "True", !.price = T_NA,
                     !.message = "Username is not listed on Fragment (might be available)"]

\* index.py lines 203-212: fewer than 3 elements
IndexNotFound(name) ==
    [NoResult EXCEPT !.keys = IndexKeys, !.username = <<"@">> \o name,
                     !.status = T_NotFound, !.available = "True", !.price = T_NA,
                     !.message = "Username not found on Fragment (likely available)"]

\* index.py line 220: available = "unavailable" in status.lower()
IndexAvailable(status) == Contains(Lower(status), T_unavailable)

\* index.py lines 214-229
IndexRecord(elems) ==
    [NoResult EXCEPT !.keys = IndexKeys,
                     !.username = elems[1], !.price = elems[2], !.status = elems[3],
                     !.available = Bool(IndexAvailable(elems[3])),
                     !.message = IF IndexAvailable(elems[3])
                                 THEN "Available for purchase"
                                 ELSE "Not available on Fragment"]

----------------------------------------------------------------------------
(* One lookup attempt *)

\* What the code after session.post does with the answer p: go round again
\* ("retry") or return a dict ("return").
Retry == [next |-> "retry", result |-> NoResult]
Return(r) == [next |-> "return", result |-> r]

\* AppAfterPost retrying on a fragment with fewer than 3 elements as it does on an
\* empty one
AppAfterPost_RetryOnShort(p, r, name) ==
    IF Transport(p) \/ p.kind = "badjson"
    THEN IF r > 0 THEN Retry ELSE Return(AppError("API request failed"))
    ELSE IF p.kind \in {"json_null", "json_list"}
    THEN Return(AppRaised("AttributeError"))
    ELSE IF p.html # "frag" \/ Len(p.elems) < MinElems
    THEN IF r > 0 THEN Retry ELSE Return(AppError("No HTML returned from Fragment API"))
    ELSE Return(AppRecord(p.elems))

\* AppAfterPost with the retry guards written retries >= 0: one retry too many
AppAfterPost_OneMoreRetry(p, r, name) ==
    IF Transport(p) \/ p.kind = "badjson"
    THEN IF r >= 0 THEN Retry ELSE Return(AppError("API request failed"))
    ELSE IF p.kind \in {"json_null", "json_list"}
    THEN Return(AppRaised("AttributeError"))
    ELSE IF p.html # "frag"
    THEN IF r >= 0 THEN Retry ELSE Return(AppError("No HTML returned from Fragment API"))
    ELSE IF Len(p.elems) < MinElems THEN Return(AppNotFound(name))
    ELSE Return(AppRecord(p.elems))

\* app.py check_fgusername lines 70-116, with r the retries argument
AppAfterPost(p, r, name) ==
    IF Transport(p) \/ p.kind = "badjson"
    THEN IF r > 0 THEN Retry ELSE Return(AppError("API request failed"))
    ELSE IF p.kind \in {"json_null", "json_list"}
    THEN Return(AppRaised("AttributeError"))    \* json_data.get outside the try
    ELSE IF p.html # "frag"
    THEN IF r > 0 THEN Retry ELSE Return(AppError("No HTML returned from Fragment API"))
    ELSE IF Len(p.elems) < MinElems THEN Return(AppNotFound(name))
    ELSE Return(AppRecord(p.elems))

\* IndexAfterPost with the continue guards written attempt <= retries: the last
\* iteration continues too
IndexAfterPost_ContinueOnLast(p, att, r, name, jsonIsReq) ==
    IF p.kind = "timeout"
    THEN IF att <= r THEN Retry
         ELSE Return(IndexError("Request timeout. Fragment.com is taking too long to respond.", name))
    ELSE IF p.kind \in {"connerr", "http_error"} \/ (p.kind = "badjson" /\ jsonIsReq)
    THEN IF att <= r THEN Retry ELSE Return(IndexError("Network error", name))
    ELSE IF p.kind \in {"badjson", "json_null"}
    THEN Return(IndexError("Unexpected error", name))
    ELSE IF p.kind = "json_list" \/ p.html # "frag"
    THEN Return(IndexNotListed(name))
    ELSE IF Len(p.elems) < MinElems THEN Return(IndexNotFound(name))
    ELSE Return(IndexRecord(p.elems))

\* IndexAfterPost with `except Exception` retrying like the two clauses above it
IndexAfterPost_RetryAnyException(p, att, r, name, jsonIsReq) ==
    IF p.kind = "timeout"
    THEN IF att < r THEN Retry
         ELSE Return(IndexError("Request timeout. Fragment.com is taking too long to respond.", name))
    ELSE IF p.kind \in {"connerr", "http_error"} \/ (p.kind = "badjson" /\ jsonIsReq)
    THEN IF att < r THEN Retry ELSE Return(IndexError("Network error", name))
    ELSE IF p.kind \in {"badjson", "json_null"}
    THEN IF att < r THEN Retry ELSE Return(IndexError("Unexpected error", name))
    ELSE IF p.kind = "json_list" \/ p.html # "frag"
    THEN Return(IndexNotListed(name))
    ELSE IF Len(p.elems) < MinElems THEN Return(IndexNotFound(name))
    ELSE Return(IndexRecord(p.elems))

\* IndexAfterPost with the retry guards written attempt + 1 < retries: one retry short
IndexAfterPost_OneRetryShort(p, att, r, name, jsonIsReq) ==
    IF p.kind = "timeout"
    THEN IF att + 1 < r THEN Retry
         ELSE Return(IndexError("Request timeout. Fragment.com is taking too long to respond.", name))
    ELSE IF p.kind \in {"connerr", "http_error"} \/ (p.kind = "badjson" /\ jsonIsReq)
    THEN IF att + 1 < r THEN Retry ELSE Return(IndexError("Network error", name))
    ELSE IF p.kind \in {"badjson", "json_null"}
    THEN Return(IndexError("Unexpected error", name))
    ELSE IF p.kind = "json_list" \/ p.html # "frag"
    THEN Return(IndexNotListed(name))
    ELSE IF Len(p.elems) < MinElems THEN Return(IndexNotFound(name))
    ELSE Return(IndexRecord(p.elems))

\* index.py check_username_on_fragment lines 175-259: the body of one loop iteration
IndexAfterPost(p, att, r, name, jsonIsReq) ==
    IF p.kind = "timeout"
    THEN IF att < r THEN Retry
         ELSE Return(IndexError("Request timeout. Fragment.com is taking too long to respond.", name))
    ELSE IF p.kind \in {"connerr", "http_error"} \/ (p.kind = "badjson" /\ jsonIsReq)
    THEN IF att < r THEN Retry ELSE Return(IndexError("Network error", name))
    ELSE IF p.kind \in {"badjson", "json_null"}
    THEN Return(IndexError("Unexpected error", name))
    ELSE IF p.kind = "json_list" \/ p.html # "frag"   \* "html" not in [] is true
    THEN Return(IndexNotListed(name))
    ELSE IF Len(p.elems) < MinElems THEN Return(IndexNotFound(name))
    ELSE Return(IndexRecord(p.elems))

\* the endpoints: an error dict becomes HTTPException(500), an escaping exception
\* the server's 500
HttpOf(r) == IF r.error THEN 500 ELSE 200

\* index.py lines 641-646: timestamp, developer and channel are added
IndexStamp(r) ==
    IF r.error THEN r ELSE [r EXCEPT !.keys = @ \cup {"timestamp", "developer", "channel"}]

\* index.py line 719: result["timestamp"] = ..., for error dicts too
BatchStamp(r) == [r EXCEPT !.keys = @ \cup {"timestamp"}]

----------------------------------------------------------------------------
(* The shared session *)

\* the values generate_user_agent() can return
UserAgents == {"ua0", "ua1"}

\* the User-Agent set when the module is loaded (app.py line 28, index.py line 58);
\* which of the values it is does not matter, so it is given the first name
StartUpAgent == "ua0"

\* index.py update_session_headers: session.headers.update({"User-Agent":
\* generate_user_agent(), ...}); the header values the call can leave
update_session_headers == UserAgents

----------------------------------------------------------------------------
(* Upstream facts the specification's other probes would read *)

\* the listing page fragment.com/username/<name>
ListingPages ==
    { [code |-> 200, text |-> <<"P", "u", "r", "c", "h", "a", "s", "e", "d", " ", "o", "n">>],
      [code |-> 200, text |-> <<"P", "l", "a", "c", "e", " ", "a", " ", "b", "i", "d">>],
      [code |-> 404, text |-> <<>>] }

\* Marketplace Page Prober: non-200 is Unknown; the lowercased body is scanned for the
\* completed-sale marker, then for the bid marker
PageProber(page) ==
    IF page.code # 200 THEN "Unknown"
    ELSE IF Contains(Lower(page.text), <<"p", "u", "r", "c", "h", "a", "s", "e", "d", " ", "o", "n">>)
    THEN "Sold"
    ELSE IF Contains(Lower(page.text), <<"b", "i", "d">>) THEN "Available"
    ELSE "Unknown"

\* the profile page t.me/<name>
TelegramPages == [code : {200}, title : BOOLEAN]

\* Telegram Existence Prober: HTTP 200 and the profile-title marker
TelegramProber(page) == page.code = 200 /\ page.title

----------------------------------------------------------------------------
(* State machine *)

Init ==
    /\ variant \in {"app", "index"}
    /\ jsonErrIsReq \in BOOLEAN
    /\ pc = "idle"
    /\ entry = "GET"
    /\ raw = <<>>
    /\ username = <<>>
    /\ retries = 0
    /\ attempt = 0
    /\ apiHash = NoHash
    /\ fetches = 0
    /\ posts = 0
    /\ lastPost = NoPost
    /\ postLog = {}
    /\ result = NoResult
    /\ httpCode = 0
    /\ listing \in ListingPages
    /\ tgProfile \in TelegramPages
    /\ sessionUA = StartUpAgent
    /\ hashUses = 0
    /\ queue = <<>>
    /\ results = <<>>

\* the request is refused with status code before the check is called
Reject(e, r, code) ==
    /\ pc' = "done"
    /\ entry' = e
    /\ raw' = r
    /\ httpCode' = code
    /\ UNCHANGED <<variant, jsonErrIsReq, username, retries, attempt, apiHash, fetches,
                   posts, lastPost, postLog, result, listing, tgProfile,
                   sessionUA, hashUses, queue, results>>

\* the endpoint calls the check with the cleaned name and the default retries
StartCheck(e, r, name, n) ==
    /\ pc' = "resolve"
    /\ entry' = e
    /\ raw' = r
    /\ username' = name
    /\ retries' = n
    /\ attempt' = 0
    /\ UNCHANGED <<variant, jsonErrIsReq, apiHash, fetches, posts, lastPost, postLog,
                   result, httpCode, listing, tgProfile, sessionUA, hashUses, queue,
                   results>>

\* app.py GET /username, lines 142-160
AppGetUsername(r) ==
    /\ variant = "app" /\ pc = "idle"
    /\ IF Len(r) < 1 THEN Reject("GET", r, 422)              \* Query(min_length=1)
       ELSE IF Clean(r) = <<>> THEN Reject("GET", r, 400)
       ELSE IF Len(Clean(r)) > MaxUsernameLen THEN Reject("GET", r, 400)
       ELSE IF ~MatchWordPlus(Clean(r)) THEN Reject("GET", r, 400)
       ELSE StartCheck("GET", r, Clean(r), AppRetries)

\* app.py POST /username, lines 170-180
AppPostUsername(r) ==
    /\ variant = "app" /\ pc = "idle"
    /\ IF Clean(r) = <<>> THEN Reject("POST", r, 400)
       ELSE StartCheck("POST", r, Clean(r), AppRetries)

\* index.py GET /username, lines 595-633
IndexGetUsername(r) ==
    /\ variant = "index" /\ pc = "idle"
    /\ IF Len(r) < 1 \/ Len(r) > MaxUsernameLen                \* Query(min_length, max_length)
       THEN Reject("GET", r, 422)
       ELSE IF Clean(r) = <<>> THEN Reject("GET", r, 400)
       ELSE IF ~MatchWord1to32(Clean(r)) THEN Reject("GET", r, 400)
       ELSE StartCheck("GET", r, Clean(r), IndexRetries)

\* index.py POST /username, lines 648-671
IndexPostUsername(r) ==
    /\ variant = "index" /\ pc = "idle"
    /\ IF Clean(r) = <<>> THEN Reject("POST", r, 400)
       ELSE IF ~MatchWord1to32(Clean(r)) THEN Reject("POST", r, 400)
       ELSE StartCheck("POST", r, Clean(r), IndexRetries)

\* Finish with the batch loop raising HTTPException(500) on an error dict, as the
\* /username endpoints do
Finish_AbortBatchOnError(res) ==
    IF entry = "BATCH" /\ ~res.error
    THEN /\ result' = BatchStamp(res)
         /\ results' = Append(results, BatchStamp(res))
         /\ IF queue = <<>>
            THEN pc' = "done" /\ httpCode' = 200
            ELSE pc' = "next" /\ UNCHANGED httpCode
    ELSE /\ pc' = "done"
         /\ result' = IF variant = "index" THEN IndexStamp(res) ELSE res
         /\ httpCode' = HttpOf(res)
         /\ UNCHANGED results

\* The check returns res.  /username answers with it; /batch (index.py lines
\* 717-728) stamps it, appends it whether it is an error or not, and goes on with the
\* next name or answers 200 when the list is used up.
Finish(res) ==
    IF entry = "BATCH"
    THEN /\ result' = BatchStamp(res)
         /\ results' = Append(results, BatchStamp(res))
         /\ IF queue = <<>>
            THEN pc' = "done" /\ httpCode' = 200
            ELSE pc' = "next" /\ UNCHANGED httpCode
    ELSE /\ pc' = "done"
         /\ result' = IF variant = "index" THEN IndexStamp(res) ELSE res
         /\ httpCode' = HttpOf(res)
         /\ UNCHANGED results

\* AppFragApi without `if not api_url: return`: the POST goes out with no hash
AppFragApi_IgnoreFailure(h) ==
    /\ variant = "app" /\ pc = "resolve"
    /\ fetches' = fetches + 1
    /\ apiHash' = frag_api(h)
    /\ hashUses' = 0
    /\ pc' = "lookup"
    /\ UNCHANGED <<variant, jsonErrIsReq, entry, raw, username, retries, attempt, posts,
                   lastPost, postLog, listing, tgProfile, sessionUA, queue, result,
                   httpCode, results>>

\* app.py check_fgusername lines 64-66: api_url = frag_api()
AppFragApi(h) ==
    /\ variant = "app" /\ pc = "resolve"
    /\ fetches' = fetches + 1
    /\ apiHash' = frag_api(h)
    /\ hashUses' = 0
    /\ IF frag_api(h) = NoHash
       THEN Finish(AppError("Could not get API URL"))
       ELSE pc' = "lookup" /\ UNCHANGED <<result, httpCode, results>>
    /\ UNCHANGED <<variant, jsonErrIsReq, entry, raw, username, retries, attempt, posts,
                   lastPost, postLog, listing, tgProfile, sessionUA, queue>>

\* index.py check_username_on_fragment lines 146-156: api_hash = get_api_hash()
IndexGetApiHash(h) ==
    /\ variant = "index" /\ pc = "resolve"
    /\ fetches' = fetches + 1
    /\ sessionUA' \in update_session_headers     \* line 95, before session.get
    /\ hashUses' = 0
    /\ apiHash' = get_api_hash(h)
    /\ IF get_api_hash(h) = NoHash
       THEN Finish(IndexError("Failed to connect to Fragment.com. Please try again later.",
                              username))
       ELSE pc' = "lookup" /\ UNCHANGED <<result, httpCode, results>>
    /\ UNCHANGED <<variant, jsonErrIsReq, entry, raw, username, retries, attempt, posts,
                   lastPost, postLog, listing, tgProfile, queue>>

\* AppPost with the retry written as a loop round session.post: api_url is kept
AppPost_ReuseHash(p) ==
    /\ variant = "app" /\ pc = "lookup"
    /\ posts' = posts + 1
    /\ lastPost' = p
    /\ postLog' = postLog \cup {PostClass(p)}
    /\ LET o == AppAfterPost(p, retries, username)
       IN  IF o.next = "retry"
           THEN /\ retries' = retries - 1
                /\ pc' = "lookup"
                /\ UNCHANGED <<result, httpCode, results>>
           ELSE /\ Finish(o.result)
                /\ UNCHANGED retries
    /\ hashUses' = hashUses + 1
    /\ UNCHANGED <<variant, jsonErrIsReq, entry, raw, username, attempt, apiHash, fetches,
                   listing, tgProfile, sessionUA, queue>>

\* AppPost with the recursive call written check_fgusername(username, retries)
AppPost_NoDecrement(p) ==
    /\ variant = "app" /\ pc = "lookup"
    /\ posts' = posts + 1
    /\ lastPost' = p
    /\ postLog' = postLog \cup {PostClass(p)}
    /\ LET o == AppAfterPost(p, retries, username)
       IN  IF o.next = "retry"
           THEN /\ pc' = "resolve"
                /\ UNCHANGED <<result, httpCode, results>>
           ELSE Finish(o.result)
    /\ hashUses' = hashUses + 1
    /\ UNCHANGED <<variant, jsonErrIsReq, entry, raw, username, attempt, apiHash, fetches,
                   listing, tgProfile, sessionUA, queue, retries>>

\* app.py check_fgusername lines 68-116: one session.post and what follows it; a
\* retry is the recursive call check_fgusername(username, retries - 1), which
\* starts with frag_api() again
AppPost(p) ==
    /\ variant = "app" /\ pc = "lookup"
    /\ posts' = posts + 1
    /\ lastPost' = p
    /\ postLog' = postLog \cup {PostClass(p)}
    /\ LET o == AppAfterPost(p, retries, username)
       IN  IF o.next = "retry"
           THEN /\ retries' = retries - 1
                /\ pc' = "resolve"
                /\ UNCHANGED <<result, httpCode, results>>
           ELSE /\ Finish(o.result)
                /\ UNCHANGED retries
    /\ hashUses' = hashUses + 1
    /\ UNCHANGED <<variant, jsonErrIsReq, entry, raw, username, attempt, apiHash, fetches,
                   listing, tgProfile, sessionUA, queue>>

\* index.py check_username_on_fragment lines 174-266: one iteration of the loop; when
\* range(retries + 1) is used up the function falls to "Max retries exceeded"
IndexPost(p) ==
    /\ variant = "index" /\ pc = "lookup"
    /\ posts' = posts + 1
    /\ lastPost' = p
    /\ postLog' = postLog \cup {PostClass(p)}
    /\ LET o == IndexAfterPost(p, attempt, retries, username, jsonErrIsReq)
       IN  IF o.next = "retry"
           THEN /\ attempt' = attempt + 1
                /\ IF attempt + 1 < retries + 1
                   THEN pc' = "lookup" /\ UNCHANGED <<result, httpCode, results>>
                   ELSE Finish(IndexError("Max retries exceeded", username))
           ELSE /\ Finish(o.result)
                /\ UNCHANGED attempt
    /\ hashUses' = hashUses + 1
    /\ UNCHANGED <<variant, jsonErrIsReq, entry, raw, username, retries, apiHash, fetches,
                   listing, tgProfile, sessionUA, queue>>

\* the response is sent; the server waits for the next request, whose name has its
\* own listing page and profile page
Reset ==
    /\ pc = "done"
    /\ pc' = "idle"
    /\ entry' = "GET"
    /\ raw' = <<>>
    /\ username' = <<>>
    /\ retries' = 0
    /\ attempt' = 0
    /\ apiHash' = NoHash
    /\ fetches' = 0
    /\ posts' = 0
    /\ lastPost' = NoPost
    /\ postLog' = {}
    /\ result' = NoResult
    /\ httpCode' = 0
    /\ listing' \in ListingPages
    /\ tgProfile' \in TelegramPages
    /\ hashUses' = 0
    /\ queue' = <<>>
    /\ results' = <<>>
    /\ UNCHANGED <<variant, jsonErrIsReq, sessionUA>>

----------------------------------------------------------------------------
(* GET /batch of index.py *)

\* str.split(',')
RECURSIVE Split(_)
Split(s) ==
    IF \A i \in 1..Len(s) : s[i] # ","
    THEN <<s>>
    ELSE LET i == CHOOSE k \in 1..Len(s) : s[k] = "," /\ \A j \in 1..(k - 1) : s[j] # ","
         IN  <<SubSeq(s, 1, i - 1)>> \o Split(SubSeq(s, i + 1, Len(s)))

\* the usernames parameter made of the entries l
RECURSIVE Join(_)
Join(l) ==
    IF l = <<>> THEN <<>>
    ELSE IF Len(l) = 1 THEN l[1]
    ELSE l[1] \o <<",">> \o Join(Tail(l))

BatchEntries == {<<"a">>, <<" ", "A">>, <<"-">>}

\* the usernames parameters a client sends: every list of up to MaxBatch entries, and
\* one list of six valid names
BatchInputs ==
    {Join(l) : l \in SeqsUpTo(BatchEntries, MaxBatch)}
    \cup {Join([i \in 1..(MaxBatchNames + 1) |-> <<"a">>])}

\* index.py lines 700-701: clean every entry, keep the non-empty ones that match
ValidBatch(r) ==
    LET parts == Split(r)
        cleaned == [i \in 1..Len(parts) |-> Clean(parts[i])]
        Keep(u) == u # <<>> /\ MatchWord1to32(u)
    IN  SelectSeq(cleaned, Keep)

\* IndexBatch with the limit test written > 6
IndexBatch_LimitSix(r) ==
    /\ variant = "index" /\ pc = "idle"
    /\ IF ValidBatch(r) = <<>> THEN Reject("BATCH", r, 400)
       ELSE IF Len(ValidBatch(r)) > MaxBatchNames + 1 THEN Reject("BATCH", r, 400)
       ELSE /\ pc' = "next"
            /\ entry' = "BATCH"
            /\ raw' = r
            /\ queue' = ValidBatch(r)
            /\ UNCHANGED <<variant, jsonErrIsReq, username, retries, attempt, apiHash,
                           fetches, posts, lastPost, postLog, result, httpCode, listing,
                           tgProfile, sessionUA, hashUses, results>>

\* index.py GET /batch, lines 686-716: up to the loop over the valid names
IndexBatch(r) ==
    /\ variant = "index" /\ pc = "idle"
    /\ IF ValidBatch(r) = <<>> THEN Reject("BATCH", r, 400)
       ELSE IF Len(ValidBatch(r)) > MaxBatchNames THEN Reject("BATCH", r, 400)
       ELSE /\ pc' = "next"
            /\ entry' = "BATCH"
            /\ raw' = r
            /\ queue' = ValidBatch(r)
            /\ UNCHANGED <<variant, jsonErrIsReq, username, retries, attempt, apiHash,
                           fetches, posts, lastPost, postLog, result, httpCode, listing,
                           tgProfile, sessionUA, hashUses, results>>

\* BatchLoop keeping the api_hash of the previous name: a check that finds a hash
\* goes straight to the POST
BatchLoop_CachedHash ==
    /\ pc = "next"
    /\ pc' = IF apiHash # NoHash THEN "lookup" ELSE "resolve"
    /\ username' = Head(queue)
    /\ queue' = Tail(queue)
    /\ retries' = IndexRetries
    /\ attempt' = 0
    /\ fetches' = 0
    /\ posts' = 0
    /\ lastPost' = NoPost
    /\ postLog' = {}
    /\ result' = NoResult
    /\ hashUses' = 0
    /\ UNCHANGED <<variant, jsonErrIsReq, entry, raw, httpCode, listing, tgProfile,
                   sessionUA, results, apiHash>>

\* index.py lines 717-718: `for username in username_list:` takes the next name and
\* calls check_username_on_fragment(username), whose locals are fresh
BatchLoop ==
    /\ pc = "next"
    /\ pc' = "resolve"
    /\ username' = Head(queue)
    /\ queue' = Tail(queue)
    /\ retries' = IndexRetries
    /\ attempt' = 0
    /\ apiHash' = NoHash
    /\ fetches' = 0
    /\ posts' = 0
    /\ lastPost' = NoPost
    /\ postLog' = {}
    /\ result' = NoResult
    /\ hashUses' = 0
    /\ UNCHANGED <<variant, jsonErrIsReq, entry, raw, httpCode, listing, tgProfile,
                   sessionUA, results>>

Next ==
    \/ \E r \in RawInputs : AppGetUsername(r)
    \/ \E r \in RawInputs : AppPostUsername(r)
    \/ \E r \in RawInputs : IndexGetUsername(r)
    \/ \E r \in RawInputs : IndexPostUsername(r)
    \/ \E h \in HomeResponses : AppFragApi(h)
    \/ \E h \in HomeResponses : IndexGetApiHash(h)
    \/ \E p \in PostResponses : AppPost(p)
    \/ \E p \in PostResponses : IndexPost(p)
    \/ Reset

Spec == Init /\ [][Next]_vars

\* Both applications with GET /batch, one request, for a name without listing page
\* and without profile
BatchInit ==
    /\ Init
    /\ listing = [code |-> 404, text |-> <<>>]
    /\ tgProfile = [code |-> 200, title |-> FALSE]

BatchNext ==
    \/ \E r \in RawInputs : AppGetUsername(r)
    \/ \E r \in RawInputs : AppPostUsername(r)
    \/ \E r \in RawInputs : IndexGetUsername(r)
    \/ \E r \in RawInputs : IndexPostUsername(r)
    \/ \E r \in BatchInputs : IndexBatch(r)
    \/ BatchLoop
    \/ \E h \in HomeResponses : AppFragApi(h)
    \/ \E h \in HomeResponses : IndexGetApiHash(h)
    \/ \E p \in PostResponses : AppPost(p)
    \/ \E p \in PostResponses : IndexPost(p)

BatchSpec == BatchInit /\ [][BatchNext]_vars

----------------------------------------------------------------------------
(* The normalization taken alone: username.strip().lower().replace('@', '') applied
   to an input, and applied again to what it returned *)

NormInit ==
    /\ Init
    /\ variant = "index" /\ jsonErrIsReq
    /\ listing = [code |-> 404, text |-> <<>>]
    /\ tgProfile = [code |-> 200, title |-> FALSE]

NormVars ==
    <<variant, jsonErrIsReq, entry, retries, attempt, apiHash, fetches, posts, lastPost,
      postLog, result, httpCode, listing, tgProfile, sessionUA, hashUses, queue, results>>

\* the endpoint's first statement on input r
NormalizeOnce(r) ==
    /\ pc = "idle"
    /\ pc' = "normalized"
    /\ raw' = r
    /\ username' = Clean(r)
    /\ UNCHANGED NormVars

\* the value it returned is sent in again
NormalizeAgain ==
    /\ pc = "normalized"
    /\ pc' = "renormalized"
    /\ raw' = username
    /\ username' = Clean(username)
    /\ UNCHANGED NormVars

NormNext ==
    \/ \E r \in SeqsUpTo(Alphabet, MaxNormLen) \cup RawInputs : NormalizeOnce(r)
    \/ NormalizeAgain

NormSpec == NormInit /\ [][NormNext]_vars

----------------------------------------------------------------------------
(* check_username_on_fragment(username, retries) of index.py called on its own, with
   every retries argument from 0 to MaxRetries *)

LoopInit ==
    /\ Init
    /\ variant = "index"
    /\ listing = [code |-> 404, text |-> <<>>]
    /\ tgProfile = [code |-> 200, title |-> FALSE]

\* index.py line 142: def check_username_on_fragment(username: str, retries: int = 2)
CallCheck(n) ==
    /\ variant = "index" /\ pc = "idle"
    /\ StartCheck("GET", <<"a">>, <<"a">>, n)

LoopNext ==
    \/ \E n \in 0..MaxRetries : CallCheck(n)
    \/ \E h \in HomeResponses : IndexGetApiHash(h)
    \/ \E p \in PostResponses : IndexPost(p)

LoopSpec == LoopInit /\ [][LoopNext]_vars

----------------------------------------------------------------------------
(* Vocabulary of the properties *)

\* a username of 1 to 32 characters over [A-Za-z0-9_]
ValidName(s) == Len(s) >= 1 /\ Len(s) <= MaxUsernameLen /\ AllWord(s)

\* the request ended and the check was called
Checked == pc = "done" /\ fetches > 0

\* the lookup attempts a check is allowed: the first one and `retries` more
MaxAttempts == IF variant = "app" THEN AppRetries + 1 ELSE IndexRetries + 1

\* The four-way outcome a returned dict stands for.  "Not Listed" and "Not Found"
\* carry available = True and read as Free; a dict built from a record reads as a
\* marketplace outcome; an error dict or an exception is no outcome.
Outcome(r) ==
    IF r.error THEN "none"
    ELSE IF r.status \in {T_NotListed, T_NotFound} THEN "Free"
    ELSE IF r.status = T_Sold THEN "Sold"
    ELSE "Available"

\* the latest lookup answer is a fragment with at least three value elements
GotRecord == lastPost.kind = "dict" /\ lastPost.html = "frag" /\ Len(lastPost.elems) >= MinElems

\* the latest lookup answer is an empty fragment or one with fewer than three elements
GotNoRecord ==
    lastPost.kind = "dict" /\ (lastPost.html # "frag" \/ Len(lastPost.elems) < MinElems)

----------------------------------------------------------------------------
(* Properties *)

\* C1: every check of a valid username ends with exactly one outcome out of Sold,
\* Available, Taken, Free, whatever the upstream answers; the result is never absent.
C1_OutcomeAlwaysProduced ==
    (Checked /\ ValidName(username)) =>
        Outcome(result) \in {"Sold", "Available", "Taken", "Free"}

\* C2: when the Page Prober reports Sold for the name, the outcome of the check is
\* Sold, whatever the lookup answered.  (Checks that ended in an error are left out,
\* so that the violation is one of precedence alone.)
C2_SoldPrecedence ==
    (Checked /\ ~result.error /\ PageProber(listing) = "Sold") => Outcome(result) = "Sold"

\* C3: an input whose cleaned form is not a valid username is refused before any
\* upstream request: no homepage GET and no lookup POST is issued for it.
C3_InvalidRejectedBeforeProbes ==
    (pc # "idle" /\ ~ValidName(Clean(raw))) => (fetches = 0 /\ posts = 0)

\* C4 as stated: when every lookup attempt fails with a transport error, the check
\* issues exactly the maximum number of attempts and returns a value.
C4_ExactlyMaxAttempts ==
    (Checked /\ postLog = {"transport"}) => (posts = MaxAttempts /\ ~result.raised)

\* C4 amended: the same, provided the hash resolution before every attempt succeeded
\* (app.py resolves the hash again before each retry and gives up when that fails);
\* the value returned is an error dict.
C4_ExactlyMaxAttemptsWhenHashResolves ==
    (Checked /\ postLog = {"transport"} /\ apiHash # NoHash) =>
        (posts = MaxAttempts /\ result.error /\ ~result.raised)

C4_Witness ==
    Checked /\ postLog = {"transport"} /\ apiHash # NoHash /\ posts = MaxAttempts

\* C5 as stated: a check never issues more than 3 lookup POSTs.
C5_AtMostThreePosts == posts <= 3

\* C5 amended: a check never issues more than retries + 1 lookup POSTs, which is 3 in
\* index.py and 4 in app.py.
C5_AtMostRetriesPlusOnePosts == posts <= MaxAttempts

C5_Witness == variant = "app" /\ pc = "done" /\ posts = AppRetries + 1

\* C6: no probe failure reaches the caller as a hard failure: a request that ends
\* does so with a classification, or with a 4xx for invalid input; never with a 500
\* and never with an exception leaving the check.
C6_NoHardFailure == pc = "done" => (httpCode # 500 /\ ~result.raised)

\* C7: an empty fragment or one with fewer than 3 value elements reads as "no
\* record" and never as an error outcome, in both variants.
C7_NoRecordIsNotAnError == (pc = "done" /\ GotNoRecord) => ~result.error

\* C8: with the Page Prober Unknown and a record of at least 3 value elements, the
\* check returns the marketplace classification built from the record: the name
\* cannot be claimed (available is false) and the price is the text of the second
\* element.  (The label is not constrained here, only that there is one.)
C8_RecordIsAvailableWithPrice ==
    (pc = "done" /\ GotRecord /\ PageProber(listing) = "Unknown") =>
        /\ ~result.error
        /\ result.available = "False"
        /\ result.price = lastPost.elems[2]

\* C9: when no probe gives a signal (no sold marker, no record, no profile, failed
\* probes included), the outcome is Free and the name can be claimed.
C9_InconclusiveIsFree ==
    (Checked /\ PageProber(listing) # "Sold" /\ ~GotRecord /\ ~TelegramProber(tgProfile)) =>
        (Outcome(result) = "Free" /\ result.available = "True")

\* C10: when both marketplace probes give no signal and the Telegram prober finds
\* the profile, the outcome is Taken and the name cannot be claimed.  (Checks that
\* ended in an error are left out.)
C10_TelegramTaken ==
    (Checked /\ ~result.error /\ PageProber(listing) # "Sold" /\ ~GotRecord
       /\ TelegramProber(tgProfile)) =>
        (Outcome(result) = "Taken" /\ result.available = "False")

\* C11 as stated: a check in which the resolver returned "not found" has issued no
\* lookup POST at all.
C11_NoPostInCheckWithHashFailure ==
    (pc = "done" /\ fetches > 0 /\ apiHash = NoHash) => posts = 0

\* C11 amended: the step in which the resolver returns "not found" ends the check
\* with an error and without a POST, no POST is ever sent without a hash, and in
\* index.py (one resolution per check) such a check has issued no POST at all; in
\* app.py the POSTs of earlier attempts, whose resolution succeeded, are already out.
C11_HashFailureEndsCheck ==
    /\ [][(pc = "resolve" /\ apiHash' = NoHash) =>
            (pc' \in {"done", "next"} /\ posts' = posts /\ result'.error
               /\ retries' = retries /\ attempt' = attempt)]_vars
    /\ [](pc = "lookup" => apiHash # NoHash)
    /\ []((variant = "index" /\ pc \in {"done", "next"} /\ fetches > 0 /\ apiHash = NoHash)
            => posts = 0)

C11_Witness ==
    pc = "done" /\ variant = "app" /\ apiHash = NoHash /\ posts > 0 /\ retries > 0
       /\ result.error

\* C12: no hash is carried from one check to another.  A check starts without a
\* hash; a hash only appears through a homepage GET of the running check; a POST is
\* only sent when the running check has fetched the homepage and holds a hash.  This
\* includes the second and later names of a batch.
C12_FreshHashPerCheck ==
    /\ [][(pc \in {"idle", "next"} /\ pc' = "resolve") => apiHash' = NoHash]_vars
    /\ [][(apiHash' # apiHash /\ apiHash' # NoHash) => fetches' = fetches + 1]_vars
    /\ [](pc = "lookup" => (fetches >= 1 /\ apiHash # NoHash))
    /\ [](posts > 0 => fetches >= 1)

C12_Witness ==
    entry = "BATCH" /\ Len(results) >= 1 /\ results[1].error = FALSE
       /\ pc = "lookup" /\ fetches = 1 /\ apiHash # NoHash

\* C13: a resolved hash is used for one lookup POST and no more, retries included.
C13_HashUsedOnce == hashUses <= 1

\* C14: normalization is idempotent: normalizing a normalized string returns it
\* unchanged.  (After NormalizeAgain, raw holds normalize(x) and username holds
\* normalize(normalize(x)).)
C14_NormalizeIdempotent == pc = "renormalized" => username = raw

\* C15: the shared session's headers are read-only after start-up: at every moment
\* the session carries the User-Agent it was given when the module was loaded.
C15_SessionReadOnly == sessionUA = StartUpAgent

\* C16: a record whose listing status is "Unavailable" is answered with available =
\* false, and in index.py with the message "Not available on Fragment", as the
\* example response of the landing page shows.
C16_UnavailableIsNotAvailable ==
    (pc = "done" /\ GotRecord /\ lastPost.elems[3] = T_Unavailable) =>
        /\ result.available = "False"
        /\ variant = "index" => result.message = "Not available on Fragment"

\* C17: GET /batch checks at most 5 names: a list with no valid name or with more than
\* 5 is refused with 400 before any upstream request, and no accepted request holds
\* more than 5 names.
C17_BatchLimit ==
    (entry = "BATCH" /\ pc # "idle") =>
        /\ (Len(ValidBatch(raw)) = 0 \/ Len(ValidBatch(raw)) > 5) =>
              (pc = "done" /\ httpCode = 400 /\ fetches = 0 /\ posts = 0
                 /\ results = <<>> /\ queue = <<>>)
        /\ (Len(ValidBatch(raw)) >= 1 /\ Len(ValidBatch(raw)) <= 5) => httpCode # 400
        /\ Len(results) + Len(queue) <= 5

C17_Witness ==
    entry = "BATCH" /\ pc = "done" /\ httpCode = 400 /\ Len(ValidBatch(raw)) > 5

\* retries still allowed to the running check
Remaining == IF variant = "app" THEN retries ELSE retries - attempt

\* upstream requests the running check can still make
Measure ==
    CASE pc = "resolve" -> IF variant = "app" THEN 2 * Remaining + 2 ELSE Remaining + 2
      [] pc = "lookup" -> IF variant = "app" THEN 2 * Remaining + 1 ELSE Remaining + 1
      [] OTHER -> 0

\* C18: every check terminates: each retry lowers the number of retries left by one,
\* every step of a running check lowers a measure that is never negative, and a check
\* makes at most 2 * (3 + 1) upstream requests.
C18_CheckTerminates ==
    /\ [](Measure >= 0 /\ Remaining >= 0)
    /\ [][(pc \in {"resolve", "lookup"}) => (Measure' < Measure)]_vars
    /\ [][(pc = "lookup" /\ pc' \in {"resolve", "lookup"}) => (Remaining' = Remaining - 1)]_vars
    /\ [](fetches + posts <= 2 * (3 + 1))

C18_Witness ==
    pc = "done" /\ variant = "app" /\ fetches + posts = 2 * (AppRetries + 1)

\* C19: the requests of a check come one after the other, the homepage before the
\* first POST, and a lookup answer that can be parsed (a record, a short fragment, in
\* index.py an empty fragment) ends the check with a classification: nothing more
\* is requested.
C19_SequentialShortCircuit ==
    /\ [](posts > 0 => fetches > 0)
    /\ [][fetches' + posts' <= fetches + posts + 1]_vars
    /\ [][(posts' = posts + 1
            /\ PostClass(lastPost') \in
                 {"record", "short"} \cup (IF variant = "index" THEN {"nohtml"} ELSE {}))
           => (pc' = "done" /\ ~result'.error)]_vars
    /\ [][(pc = "done") => (fetches' = 0 /\ posts' = 0)]_vars

C19_Witness ==
    pc = "done" /\ variant = "index" /\ lastPost.kind = "dict" /\ lastPost.html = "empty"
       /\ posts = 1 /\ fetches = 1 /\ ~result.error

\* the lookup attempt ended in requests.exceptions.Timeout or another
\* requests.exceptions.RequestException (non-2xx included)
FailedWithRequestException(p) ==
    Transport(p) \/ (p.kind = "badjson" /\ jsonErrIsReq)

\* the attempt ended in an exception of another class
FailedWithOtherException(p) ==
    p.kind = "json_null" \/ (p.kind = "badjson" /\ ~jsonErrIsReq)

\* C20: in index.py an attempt is retried only after a request exception; an attempt
\* that fails with any other exception ends the check at once with an error, whatever
\* retries remain.
C20_OnlyRequestExceptionsRetried ==
    [][(variant = "index" /\ pc = "lookup" /\ posts' = posts + 1) =>
          /\ pc' = "lookup" => FailedWithRequestException(lastPost')
          /\ FailedWithOtherException(lastPost') =>
                (pc' = "done" /\ result'.error /\ result'.message = "Unexpected error"
                   /\ attempt' = attempt)]_vars

C20_Witness ==
    pc = "done" /\ variant = "index" /\ lastPost.kind = "json_null" /\ posts = 1
       /\ attempt < retries /\ result.error

\* C21: in app.py every retry resolves the hash again: a running or finished check
\* has fetched the homepage once per call of check_fgusername (the first call and one
\* per retry taken), each POST follows a fetch of its own, a retry never goes to the
\* POST directly, and a resolution that fails ends the check at once with "Could not
\* get API URL", the retries left unused.
C21_AppRetryReResolves ==
    /\ []((variant = "app" /\ fetches > 0 /\ pc \in {"lookup", "done"})
             => fetches = (AppRetries - retries) + 1)
    /\ []((variant = "app" /\ pc = "lookup") => fetches = posts + 1)
    /\ []((variant = "app" /\ pc = "resolve") => fetches = posts)
    /\ [][(variant = "app" /\ posts' = posts + 1) => (pc' # "lookup")]_vars
    /\ [][(variant = "app" /\ pc = "resolve" /\ apiHash' = NoHash) =>
             (pc' = "done" /\ result'.error /\ result'.message = "Could not get API URL"
                /\ retries' = retries /\ posts' = posts /\ fetches' = fetches + 1)]_vars

C21_Witness ==
    /\ variant = "app" /\ pc = "done"
    /\ retries > 0 /\ retries < AppRetries
    /\ fetches = posts + 1 /\ fetches = (AppRetries - retries) + 1
    /\ result.message = "Could not get API URL"

\* index.py lines 722-723: "count": len(results)
BatchCount == Len(results)

\* the valid names of the running /batch request, in input order
BatchNames == ValidBatch(raw)

\* the /batch request was accepted: its loop is running or has ended
BatchRunning ==
    entry = "BATCH" /\ pc \in {"next", "resolve", "lookup", "done"}
       /\ Len(BatchNames) >= 1 /\ Len(BatchNames) <= MaxBatchNames

C23_MaxRetriesUnreachable ==
    /\ [](result.message # "Max retries exceeded")
    /\ [](retries >= 0 /\ attempt <= retries)
    /\ [][(variant = "index" /\ pc = "lookup" /\ attempt' = attempt + 1)
            => (attempt < retries /\ pc' = "lookup")]_vars
    /\ [][(variant = "index" /\ pc = "lookup" /\ posts' = posts + 1 /\ attempt' = attempt)
            => (pc' = "done" /\ result'.message # "")]_vars

C23_Witness ==
    /\ variant = "index" /\ pc = "done"
    /\ retries > 0 /\ attempt = retries /\ posts = retries + 1
    /\ Transport(lastPost) /\ result.error

====
